---- MODULE Spec2Model ----
(***************************************************************************)
(* Interview scheduler (src/app.py): browser sessions sharing one remote   *)
(* worksheet.  The model covers the session state (snapshot + watermark),  *)
(* the conflict-aware save path, refresh, the add form's slot limit and    *)
(* the two calendar exporters.                                             *)
(*                                                                         *)
(* Time is counted in ticks; TicksPerSecond ticks make one second.  A      *)
(* timestamp held by a session (pd.Timestamp) is a tick count, the         *)
(* LastUpdated text stored in the worksheet ('%Y-%m-%d %H:%M:%S') is a     *)
(* count of whole seconds.                                                 *)
(***************************************************************************)
EXTENDS Integers, Sequences, FiniteSets, TLC

VARIABLES
    now,              \* the wall clock read by pd.Timestamp.now()
    remote,           \* the rows of worksheet "Sheet1"
    pc,               \* per session: where its script run stands
    data,             \* st.session_state.data
    wm,               \* st.session_state.last_cloud_timestamp
    new_df,           \* save_with_conflict_detection: the candidate table
    current_time,     \* save_with_conflict_detection: local of the same name
    ui,               \* the message the session's last run rendered
    report,           \* the document the last export produced
    last,             \* the handler that ran last, with its inputs
    ops,              \* how many button handlers have been started
    via               \* per session: how its latest save attempt passed the check:
                      \* "clean" (both timestamps present, no conflict), "blind"
                      \* (a timestamp absent, nothing compared) or "forced"

vars == <<now, remote, pc, data, wm, new_df, current_time, ui, report, last,
          ops, via>>

-----------------------------------------------------------------------------
(* Bounds *)

MaxClock == 2
MaxRows == 2
MaxLimit == 1
MaxOps == 2
MaxExportRows == 2

Sessions == {"s1", "s2"}

(* Program constants *)

TicksPerSecond == 2
NaT == -1

SUBJECT_OPTIONS == {"zh", "en"}
TIME_SLOTS == {"09:00", "09:30"}

\* what the add form is filled with
FormNames == {"zh"}
FormDates == {"2025-01-05"}
FormTimes == {"09:00"}

Columns == {"Name", "ID", "Date", "Time", "Notes", "LastUpdated"}

Row(name, d, t, ts) ==
    [Name |-> name, ID |-> "", Date |-> d, Time |-> t, Notes |-> "",
     LastUpdated |-> ts]

EmptyTable == << >>

-----------------------------------------------------------------------------
(* clean_dataframe *)

Sentinels == {"NaT", "nan", "None", "<NA>"}

CleanText(x) == IF x \in Sentinels THEN "" ELSE x

ValidDates == {"2025-01-05", "2025-01-20", "2025-02-03"}

\* pd.to_datetime(..., errors='coerce').dt.strftime('%Y-%m-%d'), then fillna("")
CleanDate(x) ==
    CASE CleanText(x) \in ValidDates -> CleanText(x)
      [] CleanText(x) = "2025/01/20" -> "2025-01-20"
      [] OTHER -> ""

\* '%H:%M:00' first, '%H:%M' as the fallback, then strftime('%H:%M')
CleanTime(x) ==
    CASE CleanText(x) = "09:00:00" -> "09:00"
      [] CleanText(x) = "09:30:00" -> "09:30"
      [] CleanText(x) \in TIME_SLOTS -> CleanText(x)
      [] OTHER -> ""

CleanRow(r) ==
    [Name |-> CleanText(r.Name), ID |-> CleanText(r.ID),
     Date |-> CleanDate(r.Date), Time |-> CleanTime(r.Time),
     Notes |-> CleanText(r.Notes), LastUpdated |-> r.LastUpdated]

clean_dataframe(df) == [i \in 1..Len(df) |-> CleanRow(df[i])]

-----------------------------------------------------------------------------
(* Timestamps *)

notna(t) == t # NaT

\* upload_df['LastUpdated'].dt.strftime('%Y-%m-%d %H:%M:%S'): whole seconds
FormatStamp(t) == IF notna(t) THEN t \div TicksPerSecond ELSE NaT

\* pd.to_datetime of the stored text
ParseStamp(sec) == IF notna(sec) THEN sec * TicksPerSecond ELSE NaT

RECURSIVE MaxTsFrom(_, _)
MaxTsFrom(df, i) ==
    IF i > Len(df) THEN NaT
    ELSE LET rest == MaxTsFrom(df, i + 1)
             here == df[i].LastUpdated
         IN  IF notna(here) /\ (~notna(rest) \/ here > rest) THEN here ELSE rest

\* df['LastUpdated'].max(): NaT values are skipped, NaT when nothing is left
MaxTs(df) == MaxTsFrom(df, 1)

-----------------------------------------------------------------------------
(* The record store *)

\* conn.read: the stored rows, LastUpdated parsed by clean_dataframe
ReadSheet(sheet) ==
    [i \in 1..Len(sheet) |->
        [sheet[i] EXCEPT !.LastUpdated = ParseStamp(sheet[i].LastUpdated)]]

\* ok = FALSE: conn.read raised
load_data_from_google(sheet, ok) ==
    IF ~ok THEN EmptyTable
    ELSE IF sheet = << >> THEN EmptyTable
    ELSE clean_dataframe(ReadSheet(sheet))

\* clean_df: the candidate normalised and stamped
StampTable(df, t) ==
    [i \in 1..Len(df) |-> [CleanRow(df[i]) EXCEPT !.LastUpdated = t]]

\* upload_df: LastUpdated as text
UploadTable(clean_df) ==
    [i \in 1..Len(clean_df) |->
        [clean_df[i] EXCEPT !.LastUpdated = FormatStamp(clean_df[i].LastUpdated)]]

\* an update that appends to the worksheet
WriteSheet_Appends(sheet, upload_df) == sheet \o upload_df

\* conn.update: the worksheet is replaced by the uploaded table
WriteSheet(sheet, upload_df) == upload_df

-----------------------------------------------------------------------------
NoReport == [fmt |-> "none", s |-> "", lenient |-> FALSE, pages |-> << >>]

Event(s, op, out, ok, d, t, limit) ==
    [s |-> s, op |-> op, out |-> out, ok |-> ok, date |-> d, time |-> t,
     limit |-> limit]

\* the worksheet before the first session: empty, or left by an earlier save
InitialSheets == { << >>, << Row("zh", "2025-01-05", "09:00", 0) >> }

\* no save attempt of the session's latest run reached the write step
NoSave == [how |-> "", done |-> FALSE, stale |-> FALSE]

\* a handler started by a button: one more run
StartRun ==
    /\ ops < MaxOps
    /\ ops' = ops + 1

TypeOK ==
    /\ now \in 0..MaxClock
    /\ pc \in [Sessions -> {"new", "idle", "stamp", "write", "reload"}]
    /\ \A s \in Sessions : wm[s] \in {NaT} \cup (0..MaxClock)

Init ==
    /\ now = 0
    /\ remote \in InitialSheets
    /\ ops = 0
    /\ via = [s \in Sessions |-> NoSave]
    /\ pc = [s \in Sessions |-> "new"]
    /\ data = [s \in Sessions |-> EmptyTable]
    /\ wm = [s \in Sessions |-> NaT]
    /\ new_df = [s \in Sessions |-> EmptyTable]
    /\ current_time = [s \in Sessions |-> NaT]
    /\ ui = [s \in Sessions |-> ""]
    /\ report = NoReport
    /\ last = Event("", "init", "", TRUE, "", "", 0)

Tick ==
    /\ now < MaxClock
    /\ now' = now + 1
    /\ last' = Event("", "tick", "", TRUE, "", "", 0)
    /\ UNCHANGED <<remote, pc, data, wm, new_df, current_time, ui, report, ops,
                   via>>

-----------------------------------------------------------------------------
(* initialize_session and refresh_data *)

\* last_cloud_timestamp at session start: the column's max, None when empty
InitWatermark(df) == IF df # EmptyTable THEN MaxTs(df) ELSE NaT

initialize_session(s) ==
    /\ pc[s] = "new"
    /\ \E ok \in BOOLEAN :
          LET df == load_data_from_google(remote, ok)
          IN  /\ data' = [data EXCEPT ![s] = df]
              /\ wm' = [wm EXCEPT ![s] = InitWatermark(df)]
              /\ ui' = [ui EXCEPT ![s] = IF ok THEN "" ELSE "error"]
              /\ last' = Event(s, "initialize", "", ok, "", "", 0)
    /\ pc' = [pc EXCEPT ![s] = "idle"]
    /\ UNCHANGED <<now, remote, new_df, current_time, report, ops, via>>

\* refresh_data assigns the watermark only under "not new_data.empty"
RefreshWatermark(new_data, old) ==
    IF new_data # EmptyTable THEN MaxTs(new_data) ELSE old

\* refresh_data(force=True): the rerun that ends it starts a fresh page
refresh_data(s, op) ==
    /\ \E ok \in BOOLEAN :
          LET new_data == load_data_from_google(remote, ok)
          IN  /\ data' = [data EXCEPT ![s] = new_data]
              /\ wm' = [wm EXCEPT ![s] = RefreshWatermark(new_data, wm[s])]
              /\ last' = Event(s, op, "", ok, "", "", 0)
    /\ pc' = [pc EXCEPT ![s] = "idle"]
    /\ ui' = [ui EXCEPT ![s] = ""]
    /\ new_df' = [new_df EXCEPT ![s] = EmptyTable]
    /\ via' = [via EXCEPT ![s] = NoSave]
    /\ UNCHANGED <<now, remote, current_time, report>>

\* the "Force Sync from Cloud" button
ForceSync(s) ==
    /\ pc[s] = "idle"
    /\ StartRun
    /\ refresh_data(s, "refresh")

\* the conflict prompt's reload button, once chosen
Reload(s) ==
    /\ pc[s] = "reload"
    /\ UNCHANGED ops
    /\ refresh_data(s, "reload")

-----------------------------------------------------------------------------
(* save_with_conflict_detection *)

CloudLatestTs(latest_cloud) ==
    IF latest_cloud # EmptyTable THEN MaxTs(latest_cloud) ELSE NaT

\* the comparison with >= for >
Conflict_AtOrAbove(user_latest_ts, cloud_ts) ==
    notna(user_latest_ts) /\ notna(cloud_ts) /\ cloud_ts >= user_latest_ts

Conflict(user_latest_ts, cloud_ts) ==
    notna(user_latest_ts) /\ notna(cloud_ts) /\ cloud_ts > user_latest_ts

\* falls through to the write step (no conflict, or force overwrite)
ProceedToWrite(s, cand) ==
    /\ pc' = [pc EXCEPT ![s] = "stamp"]
    /\ new_df' = [new_df EXCEPT ![s] = cand]
    /\ ui' = [ui EXCEPT ![s] = ""]
    /\ UNCHANGED <<data, wm, current_time>>

\* the prompt without its st.stop(): the run falls through to the write
TakeNoAction_FallsThrough(s, cand) == ProceedToWrite(s, cand)

\* neither button pressed: st.stop()
TakeNoAction(s, cand) ==
    /\ pc' = [pc EXCEPT ![s] = "idle"]
    /\ ui' = [ui EXCEPT ![s] = "conflict"]
    /\ UNCHANGED <<data, wm, new_df, current_time>>

\* reload pressed: refresh_data(force=True) is entered
ChooseReload(s, cand) ==
    /\ pc' = [pc EXCEPT ![s] = "reload"]
    /\ ui' = [ui EXCEPT ![s] = "conflict"]
    /\ UNCHANGED <<data, wm, new_df, current_time>>

Passed(how) == [how |-> how, done |-> FALSE, stale |-> FALSE]

Choices == {"none", "reload", "force"}

\* lines 101-125: the re-fetch, the comparison and the prompt.  The two
\* buttons' values are inputs of the run.
save_with_conflict_detection(s, cand, op, d, t, limit) ==
    /\ \E ok \in BOOLEAN, choice \in Choices :
          LET latest_cloud == load_data_from_google(remote, ok)
              cts == CloudLatestTs(latest_cloud)
          IN  IF Conflict(wm[s], cts)
              THEN CASE choice = "reload" ->
                          /\ ChooseReload(s, cand)
                          /\ via' = [via EXCEPT ![s] = NoSave]
                          /\ last' = Event(s, op, "reload", ok, d, t, limit)
                     [] choice = "force" ->
                          /\ ProceedToWrite(s, cand)
                          /\ via' = [via EXCEPT ![s] = Passed("forced")]
                          /\ last' = Event(s, op, "force", ok, d, t, limit)
                     [] OTHER ->
                          /\ TakeNoAction(s, cand)
                          /\ via' = [via EXCEPT ![s] = NoSave]
                          /\ last' = Event(s, op, "stop", ok, d, t, limit)
              ELSE /\ choice = "none"
                   /\ ProceedToWrite(s, cand)
                   /\ via' = [via EXCEPT ![s] =
                                 Passed(IF notna(wm[s]) /\ notna(cts)
                                        THEN "clean" ELSE "blind")]
                   /\ last' = Event(s, op, "noconflict", ok, d, t, limit)
    /\ UNCHANGED <<now, remote, report>>

\* line 127: current_time = pd.Timestamp.now()
Stamp(s) ==
    /\ pc[s] = "stamp"
    /\ current_time' = [current_time EXCEPT ![s] = now]
    /\ pc' = [pc EXCEPT ![s] = "write"]
    /\ last' = Event(s, "stamp", "", TRUE, "", "", 0)
    /\ UNCHANGED <<now, remote, data, wm, new_df, ui, report, ops, via>>

\* the worksheet holds a write newer than the session's watermark
Overtaken(s) ==
    LET cloud == MaxTs(load_data_from_google(remote, TRUE))
    IN  notna(wm[s]) /\ notna(cloud) /\ cloud > wm[s]

\* the watermark the session keeps after its write
SavedWatermark(t) == t

\* lines 130-151: conn.update, then the session state; ok = FALSE: it raised
Write(s) ==
    /\ pc[s] = "write"
    /\ \E ok \in BOOLEAN :
          LET clean_df == StampTable(new_df[s], current_time[s])
          IN  IF ok
              THEN /\ remote' = WriteSheet(remote, UploadTable(clean_df))
                   /\ data' = [data EXCEPT ![s] = clean_df]
                   /\ wm' = [wm EXCEPT ![s] = SavedWatermark(current_time[s])]
                   /\ ui' = [ui EXCEPT ![s] = ""]
                   /\ via' = [via EXCEPT ![s].done = TRUE,
                                         ![s].stale = Overtaken(s)]
                   /\ last' = Event(s, "write", "saved", TRUE, "", "", 0)
              ELSE /\ ui' = [ui EXCEPT ![s] = "error"]
                   /\ last' = Event(s, "write", "failed", FALSE, "", "", 0)
                   /\ UNCHANGED <<remote, data, wm, via>>
    /\ pc' = [pc EXCEPT ![s] = "idle"]
    /\ new_df' = [new_df EXCEPT ![s] = EmptyTable]
    /\ current_time' = [current_time EXCEPT ![s] = NaT]
    /\ UNCHANGED <<now, report, ops>>

-----------------------------------------------------------------------------
(* The handlers that call the save *)

ExistingCount(df, check_date, t_str) ==
    Cardinality({i \in 1..Len(df) :
                    df[i].Date = check_date /\ df[i].Time = t_str})

\* the slot test with > for >=
LimitReached_OffByOne(df, check_date, t_str, limit) ==
    limit > 0 /\ ExistingCount(df, check_date, t_str) > limit

LimitReached(df, check_date, t_str, limit) ==
    limit > 0 /\ ExistingCount(df, check_date, t_str) >= limit

\* the add form's submit handler
AddFormSubmit(s) ==
    /\ pc[s] = "idle"
    /\ StartRun
    /\ \E name \in FormNames, d \in FormDates, t_str \in FormTimes,
          limit \in 0..MaxLimit :
          IF LimitReached(data[s], d, t_str, limit)
          THEN /\ ui' = [ui EXCEPT ![s] = "full"]
               /\ last' = Event(s, "add", "rejected", TRUE, d, t_str, limit)
               /\ via' = [via EXCEPT ![s] = NoSave]
               /\ UNCHANGED <<now, remote, pc, data, wm, new_df, current_time,
                              report>>
          ELSE /\ Len(data[s]) < MaxRows
               /\ save_with_conflict_detection(
                      s, Append(data[s], Row(name, d, t_str, NaT)),
                      "add", d, t_str, limit)

\* edit_in / clean_out: Date and Time through date and time objects and back
GridRoundTrip(df) ==
    [i \in 1..Len(df) |->
        [df[i] EXCEPT !.Date = CleanDate(df[i].Date),
                      !.Time = IF df[i].Time \in TIME_SLOTS
                               THEN df[i].Time ELSE ""]]

RemoveAt(df, k) == [i \in 1..(Len(df) - 1) |-> IF i < k THEN df[i] ELSE df[i + 1]]

\* what the user can leave in the grid: nothing changed, or a row deleted
GridEdits(df) == {df} \cup {RemoveAt(df, k) : k \in 1..Len(df)}

\* the "Save Changes to Cloud" button
GridSave(s) ==
    /\ pc[s] = "idle"
    /\ StartRun
    /\ \E out \in GridEdits(GridRoundTrip(data[s])) :
          save_with_conflict_detection(s, out, "grid", "", "", 0)

\* uploaded files, after read_csv(...).fillna(""): one whose row has a date in
\* another notation and no time, one without a Name column
CsvFiles ==
    { [has_name |-> TRUE,
       rows |-> << Row("en", "2025/01/20", "", NaT) >>],
      [has_name |-> FALSE,
       rows |-> << Row("", "2025-01-05", "09:00", NaT) >>] }

\* the "Import" button
CsvImport(s) ==
    /\ pc[s] = "idle"
    /\ StartRun
    /\ \E imp \in CsvFiles :
          IF imp.has_name
          THEN /\ Len(data[s]) + Len(imp.rows) <= MaxRows
               /\ save_with_conflict_detection(
                      s, data[s] \o imp.rows, "import", "", "", 0)
          ELSE /\ last' = Event(s, "import", "ignored", TRUE, "", "", 0)
               /\ via' = [via EXCEPT ![s] = NoSave]
               /\ UNCHANGED <<now, remote, pc, data, wm, new_df, current_time,
                              ui, report>>

-----------------------------------------------------------------------------
Next ==
    \/ Tick
    \/ \E s \in Sessions : initialize_session(s)
    \/ \E s \in Sessions : ForceSync(s)
    \/ \E s \in Sessions : Reload(s)
    \/ \E s \in Sessions : AddFormSubmit(s)
    \/ \E s \in Sessions : GridSave(s)
    \/ \E s \in Sessions : CsvImport(s)
    \/ \E s \in Sessions : Stamp(s)
    \/ \E s \in Sessions : Write(s)

Spec == Init /\ [][Next]_vars

-----------------------------------------------------------------------------
(* generate_visual_pdf and generate_visual_excel *)

\* the day the export runs
Today == "2025-03-10"

Months == <<"2025-01", "2025-02", "2025-03">>

\* dt.to_period('M') of a date
MonthOf(d) ==
    CASE d \in {"2025-01-05", "2025-01-20"} -> "2025-01"
      [] d = "2025-02-03" -> "2025-02"
      [] d = "2025-03-10" -> "2025-03"

\* the day strings f"{year}-{month:02d}-{day:02d}" of a month's grid that a
\* row's Date can equal
DaysOf(m) == {d \in ValidDates \cup {Today} : MonthOf(d) = m}

\* the order of the Time strings under sort_values('Time')
TimeOrd(t) ==
    CASE t = "" -> 0
      [] t = "09:00" -> 1
      [] t = "09:30" -> 2

\* the month of pd.to_datetime(Date + " " + Time, errors='coerce'), "NaT" when
\* it is NaT.  A text with both parts parses.  A text with one part missing
\* parses or not with the parser in use (lenient: a date alone is that day, a
\* time alone is today); with both parts missing it never parses.
PeriodOf(r, lenient) ==
    CASE r.Date # "" /\ r.Time # "" -> MonthOf(r.Date)
      [] r.Date # "" /\ r.Time = "" -> IF lenient THEN MonthOf(r.Date) ELSE "NaT"
      [] r.Date = "" /\ r.Time # "" -> IF lenient THEN MonthOf(Today) ELSE "NaT"
      [] OTHER -> "NaT"

\* the rows whose dt is not NaT
Parsed(df, lenient) == {i \in 1..Len(df) : PeriodOf(df[i], lenient) # "NaT"}

\* sorted(df['dt'].dt.to_period('M').unique()), NaT dropped
MonthsPresent(df, lenient) ==
    SelectSeq(Months, LAMBDA m : \E i \in Parsed(df, lenient) :
                                    PeriodOf(df[i], lenient) = m)

RECURSIVE SortByTime(_, _)
SortByTime(df, idx) ==
    IF idx = {} THEN << >>
    ELSE LET first == CHOOSE i \in idx :
                         \A j \in idx :
                            \/ TimeOrd(df[i].Time) < TimeOrd(df[j].Time)
                            \/ /\ TimeOrd(df[i].Time) = TimeOrd(df[j].Time)
                               /\ i <= j
         IN  <<first>> \o SortByTime(df, idx \ {first})

\* df[df['Date'] == day_str].sort_values('Time'), over the rows `rows` of df
DayData(df, rows, day_str) ==
    SortByTime(df, {i \in rows : df[i].Date = day_str})

\* one grid per month, each day cell listing its rows
Pages(df, rows, lenient) ==
    LET ms == MonthsPresent(df, lenient)
    IN  [k \in 1..Len(ms) |->
            [month |-> ms[k],
             cells |-> [d \in DaysOf(ms[k]) |-> DayData(df, rows, d)]]]

\* generate_visual_pdf: df = df.dropna(subset=['dt']) before the grids
PdfRows(df, lenient) == Parsed(df, lenient)

\* generate_visual_excel: only the month list drops NaT; the cells filter the
\* whole table
ExcelRows(df, lenient) == 1..Len(df)

ExportPdf(s) ==
    /\ pc[s] = "idle"
    /\ data[s] # EmptyTable
    /\ \E lenient \in BOOLEAN :
          report' = [fmt |-> "pdf", s |-> s, lenient |-> lenient,
                     pages |-> Pages(data[s], PdfRows(data[s], lenient), lenient)]
    /\ last' = Event(s, "pdf", "", TRUE, "", "", 0)
    /\ UNCHANGED <<now, remote, pc, data, wm, new_df, current_time, ui, ops, via>>

ExportExcel(s) ==
    /\ pc[s] = "idle"
    /\ data[s] # EmptyTable
    /\ \E lenient \in BOOLEAN :
          report' = [fmt |-> "xlsx", s |-> s, lenient |-> lenient,
                     pages |-> Pages(data[s], ExcelRows(data[s], lenient),
                                     lenient)]
    /\ last' = Event(s, "xlsx", "", TRUE, "", "", 0)
    /\ UNCHANGED <<now, remote, pc, data, wm, new_df, current_time, ui, ops, via>>

\* normalised rows: Date and Time are well-formed or empty
ExportRowKinds ==
    {Row("zh", d, t, 0) : d \in ValidDates \cup {""}, t \in TIME_SLOTS \cup {""}}

RECURSIVE TablesUpTo(_)
TablesUpTo(n) ==
    IF n = 0 THEN {<< >>}
    ELSE LET shorter == TablesUpTo(n - 1)
         IN  shorter \cup {Append(df, r) : df \in shorter, r \in ExportRowKinds}

\* one session holding any normalised snapshot, about to open the export tab
InitExport ==
    /\ now = 0
    /\ remote = << >>
    /\ ops = 0
    /\ via = [s \in Sessions |-> NoSave]
    /\ pc = [s \in Sessions |-> "idle"]
    /\ \E df \in TablesUpTo(MaxExportRows) :
          data = [s \in Sessions |-> IF s = "s1" THEN df ELSE EmptyTable]
    /\ wm = [s \in Sessions |-> IF data[s] # EmptyTable THEN 0 ELSE NaT]
    /\ new_df = [s \in Sessions |-> EmptyTable]
    /\ current_time = [s \in Sessions |-> NaT]
    /\ ui = [s \in Sessions |-> ""]
    /\ report = NoReport
    /\ last = Event("", "init", "", TRUE, "", "", 0)

NextExport ==
    \/ \E s \in Sessions : ExportPdf(s)
    \/ \E s \in Sessions : ExportExcel(s)

SpecExport == InitExport /\ [][NextExport]_vars

\* how often row i is listed in the report's cells
Occurrences(i) ==
    LET pages == report.pages
        hits == {<<k, d, n>> \in (1..Len(pages)) \X (ValidDates \cup {Today})
                                                 \X (1..MaxExportRows + 1) :
                    /\ d \in DOMAIN pages[k].cells
                    /\ n <= Len(pages[k].cells[d])
                    /\ pages[k].cells[d][n] = i}
    IN  Cardinality(hits)

\* C9: in either report the rows listed are those whose Date+Time parses, each
\* once, in the cell of its day, by time within the cell; there is one grid
\* per month present, ascending; a row whose Date or Time does not parse is in
\* no cell.  Stated for the runs whose parser rejects a text with a part
\* missing, the reading under which the claim's two halves agree.
C9_ExportCompleteAndExclusive ==
    (report.fmt # "none" /\ ~report.lenient) =>
        LET df == data[report.s]
            pages == report.pages
        IN  /\ \A i \in 1..Len(df) :
                  /\ i \in Parsed(df, report.lenient) => Occurrences(i) = 1
                  /\ i \notin Parsed(df, report.lenient) => Occurrences(i) = 0
                  /\ (df[i].Date = "" \/ df[i].Time = "") => Occurrences(i) = 0
            /\ \A k \in 1..Len(pages) :
                  /\ \E i \in Parsed(df, report.lenient) :
                        PeriodOf(df[i], report.lenient) = pages[k].month
                  /\ \A d \in DOMAIN pages[k].cells :
                        LET cell == pages[k].cells[d]
                        IN  \A n \in 1..Len(cell) :
                               /\ df[cell[n]].Date = d
                               /\ n > 1 => TimeOrd(df[cell[n - 1]].Time)
                                              <= TimeOrd(df[cell[n]].Time)
            /\ \A i \in Parsed(df, report.lenient) :
                  \E k \in 1..Len(pages) :
                     pages[k].month = PeriodOf(df[i], report.lenient)
            /\ \A k, l \in 1..Len(pages) :
                  k < l => pages[k].month # pages[l].month

-----------------------------------------------------------------------------
(* Properties of the save protocol *)

SaveOps == {"add", "grid", "import"}

\* this step is session s running lines 101-125 of the save
SaveAttemptBy(s) ==
    /\ last'.s = s
    /\ last'.op \in SaveOps
    /\ last'.out \in {"noconflict", "force", "reload", "stop"}

\* the worksheet as a session would read it now
RemoteNow == load_data_from_google(remote, TRUE)

\* the worksheet holds a write newer than the session's watermark
NewerInStore(s) ==
    /\ notna(wm[s])
    /\ notna(MaxTs(RemoteNow))
    /\ MaxTs(RemoteNow) > wm[s]

\* C1: a session whose watermark is T0, saving after a write with LastUpdated
\* T1 > T0 has landed in the worksheet, detects the conflict and reaches the
\* write step only by force overwrite, also when its re-fetch fails.
C1_ConflictDetected ==
    [][\A s \in Sessions :
          (SaveAttemptBy(s) /\ NewerInStore(s))
              => /\ last'.out \in {"stop", "reload", "force"}
                 /\ (pc'[s] = "stamp" => last'.out = "force")]_vars

\* C2: a save attempt whose fresh re-read has a maximum LastUpdated at or below
\* the session's watermark goes to the write step and shows no conflict prompt.
C2_NoConflictProceeds ==
    [][\A s \in Sessions :
          LET fresh == load_data_from_google(remote, last'.ok)
          IN  (/\ SaveAttemptBy(s)
               /\ notna(wm[s])
               /\ notna(MaxTs(fresh))
               /\ MaxTs(fresh) <= wm[s])
                  => /\ pc'[s] = "stamp"
                     /\ last'.out = "noconflict"
                     /\ ui'[s] # "conflict"]_vars

C2_Witness ==
    \E s \in Sessions :
        /\ last.s = s /\ last.op \in SaveOps /\ last.ok
        /\ pc[s] = "stamp"
        /\ notna(wm[s])
        /\ notna(MaxTs(RemoteNow))
        /\ MaxTs(RemoteNow) <= wm[s]
        /\ new_df[s] # EmptyTable

\* C3: an operation whose remote read or write failed leaves the session's
\* snapshot and watermark as they were.
C3_FailureKeepsSession ==
    [][\A s \in Sessions :
          (last'.s = s /\ ~last'.ok)
              => (data'[s] = data[s] /\ wm'[s] = wm[s])]_vars

\* C4: the LastUpdated a save writes is never below the one an earlier save
\* wrote: the worksheet's maximum LastUpdated never goes down.
C4_LastUpdatedMonotone ==
    [][(remote # << >> /\ remote' # << >>)
          => MaxTs(remote') >= MaxTs(remote)]_vars

\* C5: after a reload or refresh whose read succeeded there is no candidate and
\* no write, the snapshot is the table just read and the watermark is that
\* table's maximum LastUpdated (absent for an empty table).
C5_ResyncPostcondition ==
    [][\A s \in Sessions :
          (last'.s = s /\ last'.op \in {"refresh", "reload"} /\ last'.ok)
              => /\ remote' = remote
                 /\ new_df'[s] = EmptyTable
                 /\ data'[s] = RemoteNow
                 /\ wm'[s] = MaxTs(RemoteNow)]_vars

\* C6: a save that detects a conflict with neither button chosen halts: the
\* snapshot, the watermark and the worksheet are unchanged, nothing is left to
\* write and the conflict prompt stays on the page.
C6_TakeNoActionFrame ==
    [][\A s \in Sessions :
          LET fresh == load_data_from_google(remote, last'.ok)
          IN  (/\ SaveAttemptBy(s)
               /\ Conflict(wm[s], CloudLatestTs(fresh))
               /\ last'.out \notin {"reload", "force"})
                  => /\ data' = data
                     /\ wm' = wm
                     /\ remote' = remote
                     /\ pc'[s] = "idle"
                     /\ new_df'[s] = EmptyTable
                     /\ ui'[s] = "conflict"]_vars

C6_Witness ==
    \E s \in Sessions :
        /\ last.s = s /\ last.op \in SaveOps /\ last.out = "stop"
        /\ NewerInStore(s)
        /\ data[s] # EmptyTable
        /\ pc[s] = "idle"
        /\ ui[s] = "conflict"

\* the rows of a table without their LastUpdated
Content(df) ==
    [i \in 1..Len(df) |->
        [Name |-> df[i].Name, ID |-> df[i].ID, Date |-> df[i].Date,
         Time |-> df[i].Time, Notes |-> df[i].Notes]]

\* C7: after a successful write, reading the worksheet back gives the saved
\* rows, all with one LastUpdated that is not below the worksheet's maximum
\* before the write, and the session's watermark is that value.
C7_WriteReadRoundTrip ==
    [][\A s \in Sessions :
          (last'.s = s /\ last'.op = "write" /\ last'.out = "saved")
              => LET back == load_data_from_google(remote', TRUE)
                     before == MaxTs(RemoteNow)
                 IN  /\ Content(back) = Content(clean_dataframe(new_df[s]))
                     /\ \A i, j \in 1..Len(back) :
                           back[i].LastUpdated = back[j].LastUpdated
                     /\ \A i \in 1..Len(back) :
                           /\ notna(back[i].LastUpdated)
                           /\ notna(before) => back[i].LastUpdated >= before
                           /\ wm'[s] = back[i].LastUpdated]_vars

\* C8: with a limit L > 0 and at least L bookings in the slot, the add form
\* adds no row and starts no save.
C8_SlotCapacity ==
    [][\A s \in Sessions :
          (/\ last'.s = s
           /\ last'.op = "add"
           /\ last'.limit > 0
           /\ ExistingCount(data[s], last'.date, last'.time) >= last'.limit)
              => /\ last'.out = "rejected"
                 /\ data'[s] = data[s]
                 /\ new_df'[s] = EmptyTable
                 /\ pc'[s] = "idle"
                 /\ remote' = remote]_vars

C8_Witness ==
    \E s \in Sessions :
        /\ last.s = s /\ last.op = "add" /\ last.out = "rejected"
        /\ last.limit > 0
        /\ ExistingCount(data[s], last.date, last.time) >= last.limit
        /\ ui[s] = "full"

\* the contents of a table's rows, as a set
RowSet(df) == {Content(df)[i] : i \in 1..Len(df)}

\* C10: a session that compared its watermark with its re-fetch and passed,
\* while a write newer than its watermark has landed since, replaces the
\* worksheet by its own table alone and is shown no conflict.
C10_RaceWindowClobbers ==
    [][\A s \in Sessions :
          (/\ last'.s = s /\ last'.op = "write" /\ last'.out = "saved"
           /\ via[s].how = "clean"
           /\ NewerInStore(s))
              => /\ Content(remote') = Content(clean_dataframe(new_df[s]))
                 /\ ui'[s] # "conflict"
                 /\ via'[s].how = "clean"]_vars

\* both sessions compared and passed the check unprompted, both wrote, the
\* second onto a write newer than its watermark, and a row the first writer
\* saved is gone from the worksheet
C10_Witness ==
    \E a, b \in Sessions :
        /\ a # b
        /\ last.s = b /\ last.op = "write" /\ last.out = "saved"
        /\ via[a].how = "clean" /\ via[a].done
        /\ via[b] = [how |-> "clean", done |-> TRUE, stale |-> TRUE]
        /\ pc[a] = "idle" /\ pc[b] = "idle"
        /\ \E r \in RowSet(data[a]) : r \notin RowSet(remote)

====
